---------------------------- MODULE Spec2Model ----------------------------
(***************************************************************************)
(* Model of flanker/addresslib/corrector.py: the domain spelling corrector *)
(* suggest(word, cutoff, override, algo) with its three strategies         *)
(* (difflib.get_close_matches, levenshtein, spelling), the module globals  *)
(* MOST_COMMON_DOMAINS and LOOKUP_TABLE, and a caller that makes calls.    *)
(*                                                                         *)
(* A Python str is a sequence of one-character strings; a Python list of   *)
(* str is a sequence of such sequences.  A float that the code obtains as  *)
(* one correctly rounded division p/q of small integers, or as a literal,  *)
(* is the pair <<p, q>>, compared exactly.                                 *)
(***************************************************************************)
EXTENDS Integers, Sequences, FiniteSets, TLC

VARIABLES
    MOST_COMMON_DOMAINS,  \* module global, corrector.py:91
    LOOKUP_TABLE,         \* module global, corrector.py:294
    pc,                   \* "idle", "called", "returned", "raised"
    word,                 \* argument of the call in progress or just ended
    cutoff,               \* argument: <<p, q>> for the float p/q
    override,             \* the caller's list: [given |-> BOOLEAN, list |-> Seq]
    algo,                 \* argument
    result,               \* value returned by the last call
    exception,            \* "none" or the exception the last call raised
    guess,                \* local guess of the last call
    cands,                \* candidates(word) computed by spelling(), else {}
    previous              \* outcome of the call before, when the caller repeats it

vars == <<MOST_COMMON_DOMAINS, LOOKUP_TABLE, pc, word, cutoff, override, algo,
          result, exception, guess, cands, previous>>

---------------------------------------------------------------------------
(* Bounds of the model *)

\* Number of entries of MOST_COMMON_DOMAINS the model keeps (the source has 197).
NumDomains == 9

---------------------------------------------------------------------------
(* Static data *)

\* Entries of MOST_COMMON_DOMAINS, in the order of the source list.
AllDomains ==
  << <<"m", "a", "i", "l", "g", "u", "n", ".", "n", "e", "t">>,  \* mailgun.net
     <<"a", "i", "m", ".", "c", "o", "m">>,                      \* aim.com
     <<"a", "o", "l", ".", "c", "o", "m">>,                      \* aol.com
     <<"g", "m", "a", "i", "l", ".", "c", "o", "m">>,            \* gmail.com
     <<"g", "m", "x", ".", "c", "o", "m">>,                      \* gmx.com
     <<"m", "a", "c", ".", "c", "o", "m">>,                      \* mac.com
     <<"m", "a", "i", "l", ".", "c", "o", "m">>,                 \* mail.com
     <<"m", "e", ".", "c", "o", "m">>,                           \* me.com
     <<"y", "a", "h", "o", "o", ".", "c", "o", "m">>,            \* yahoo.com
     <<"y", "m", "a", "i", "l", ".", "c", "o", "m">>,            \* ymail.com
     <<"z", "i", "g", "g", "o", ".", "n", "l">> >>               \* ziggo.nl

InitialDomains ==
    SubSeq(AllDomains, 1, IF NumDomains < Len(AllDomains) THEN NumDomains
                          ELSE Len(AllDomains))

InitialLookup ==
  (  <<"y", "a", "h", "o", "o">> :> <<"y", "a", "h", "o", "o", ".", "c", "o", "m">>
  @@ <<"g", "m", "a", "i", "l">> :> <<"g", "m", "a", "i", "l", ".", "c", "o", "m">>
  @@ <<"h", "o", "t", "m", "a", "i", "l">> :> <<"h", "o", "t", "m", "a", "i", "l", ".", "c", "o", "m">>
  @@ <<"l", "i", "v", "e">> :> <<"l", "i", "v", "e", ".", "c", "o", "m">>
  @@ <<"o", "u", "t", "l", "o", "o", "k">> :> <<"o", "u", "t", "l", "o", "o", "k", ".", "c", "o", "m">>
  @@ <<"m", "s", "n">> :> <<"m", "s", "n", ".", "c", "o", "m">>
  @@ <<"g", "o", "o", "g", "l", "e", "m", "a", "i", "l">> :> <<"g", "o", "o", "g", "l", "e", "m", "a", "i", "l", ".", "c", "o", "m">>
  @@ <<"a", "o", "l">> :> <<"a", "o", "l", ".", "c", "o", "m">>
  @@ <<"a", "i", "m">> :> <<"a", "i", "m", ".", "c", "o", "m">>
  @@ <<"i", "c", "l", "o", "u", "d">> :> <<"i", "c", "l", "o", "u", "d", ".", "c", "o", "m">>
  @@ <<"m", "e">> :> <<"m", "e", ".", "c", "o", "m">>
  @@ <<"m", "a", "c">> :> <<"m", "a", "c", ".", "c", "o", "m">>
  @@ <<"f", "a", "c", "e", "b", "o", "o", "k">> :> <<"f", "a", "c", "e", "b", "o", "o", "k", ".", "c", "o", "m">>
  @@ <<"c", "o", "m", "c", "a", "s", "t">> :> <<"c", "o", "m", "c", "a", "s", "t", ".", "n", "e", "t">>
  @@ <<"s", "b", "c", "g", "l", "o", "b", "a", "l">> :> <<"s", "b", "c", "g", "l", "o", "b", "a", "l", ".", "n", "e", "t">>
  @@ <<"b", "e", "l", "l", "s", "o", "u", "t", "h">> :> <<"b", "e", "l", "l", "s", "o", "u", "t", "h", ".", "n", "e", "t">>
  @@ <<"v", "e", "r", "i", "z", "o", "n">> :> <<"v", "e", "r", "i", "z", "o", "n", ".", "n", "e", "t">>
  @@ <<"e", "a", "r", "t", "h", "l", "i", "n", "k">> :> <<"e", "a", "r", "t", "h", "l", "i", "n", "k", ".", "n", "e", "t">>
  @@ <<"c", "o", "x">> :> <<"c", "o", "x", ".", "n", "e", "t">>
  @@ <<"c", "h", "a", "r", "t", "e", "r">> :> <<"c", "h", "a", "r", "t", "e", "r", ".", "n", "e", "t">>
  @@ <<"s", "h", "a", "w">> :> <<"s", "h", "a", "w", ".", "c", "a">>
  @@ <<"b", "e", "l", "l">> :> <<"b", "e", "l", "l", ".", "n", "e", "t">> )

\* letters of edits1
letters ==
    <<"a", "b", "c", "d", "e", "f", "g", "h", "i", "j", "k", "l", "m",
      "n", "o", "p", "q", "r", "s", "t", "u", "v", "w", "x", "y", "z">>

---------------------------------------------------------------------------
(* Python values *)

Range(s) == {s[i] : i \in 1..Len(s)}

Min2(a, b) == IF a <= b THEN a ELSE b

\* Characters in code point order ('.' < digits < lower-case letters).
CodeOrder == <<".", "0", "1", "2", "3", "4", "5", "6", "7", "8", "9">> \o letters

Ord(c) == CHOOSE i \in 1..Len(CodeOrder) : CodeOrder[i] = c

\* x < y for two str: lexicographic by code point
StrLess(x, y) ==
    LET n    == Min2(Len(x), Len(y))
        diff == {i \in 1..n : x[i] # y[i]}
    IN  IF diff = {} THEN Len(x) < Len(y)
        ELSE LET i == CHOOSE k \in diff : \A l \in diff : k <= l
             IN  Ord(x[i]) < Ord(y[i])

\* floats p/q with q > 0
FloatLess(a, b)  == a[1] * b[2] < b[1] * a[2]
FloatEq(a, b)    == a[1] * b[2] = b[1] * a[2]
FloatLeq(a, b)   == a[1] * b[2] <= b[1] * a[2]

---------------------------------------------------------------------------
(* difflib.SequenceMatcher(a = x, b = word), as get_close_matches uses it. *)
(* No element is junk: isjunk is None and the autojunk heuristic only      *)
(* applies to a second sequence of 200 or more elements.                   *)

\* length of the longest common run of a and b starting at a[i], b[j]
RECURSIVE RunLength(_, _, _, _)
RunLength(a, b, i, j) ==
    IF i > Len(a) \/ j > Len(b) \/ a[i] # b[j] THEN 0
    ELSE 1 + RunLength(a, b, i + 1, j + 1)

\* the run lengths at every pair of positions of a and b
RunTable(a, b) ==
    [p \in (1..Len(a)) \X (1..Len(b)) |-> RunLength(a, b, p[1], p[2])]

\* the greatest run length in the table
Longest(run) ==
    CHOOSE k \in {run[p] : p \in DOMAIN run} : \A q \in DOMAIN run : run[q] <= k

\* of the runs of length k: the one that starts earliest in a and, of those,
\* the one that starts earliest in b
Earliest(run, k) ==
    CHOOSE p \in DOMAIN run :
        /\ run[p] = k
        /\ \A q \in DOMAIN run :
              run[q] = k => (p[1] < q[1] \/ (p[1] = q[1] /\ p[2] <= q[2]))

Match(p, k) == <<p[1], p[2], k>>

BestMatch(run, k) == Match(Earliest(run, k), k)

\* find_longest_match over the whole of a and b: <<i, j, k>> with
\* a[i..i+k-1] = b[j..j+k-1], k maximal, then i minimal, then j minimal
find_longest_match(a, b) ==
    IF Len(a) = 0 \/ Len(b) = 0 THEN <<1, 1, 0>>
    ELSE BestMatch(RunTable(a, b), Longest(RunTable(a, b)))

\* sum of the sizes of get_matching_blocks(): the longest match m, then the
\* same to its left and to its right
RECURSIVE matched(_, _)
RECURSIVE Blocks(_, _, _)
Blocks(a, b, m) ==
    IF m[3] = 0 THEN 0
    ELSE m[3] + matched(SubSeq(a, 1, m[1] - 1), SubSeq(b, 1, m[2] - 1))
              + matched(SubSeq(a, m[1] + m[3], Len(a)), SubSeq(b, m[2] + m[3], Len(b)))

matched(a, b) == Blocks(a, b, find_longest_match(a, b))

\* _calculate_ratio(matches, length)
calculate_ratio(m, length) == IF length # 0 THEN <<2 * m, length>> ELSE <<1, 1>>

\* SequenceMatcher.ratio()
ratio(a, b) == calculate_ratio(matched(a, b), Len(a) + Len(b))

Count(s, c) == Cardinality({i \in 1..Len(s) : s[i] = c})

RECURSIVE SumOver(_, _, _)
SumOver(S, a, b) ==
    IF S = {} THEN 0
    ELSE LET c == CHOOSE x \in S : TRUE
         IN  Min2(Count(a, c), Count(b, c)) + SumOver(S \ {c}, a, b)

\* SequenceMatcher.quick_ratio(): size of the multiset intersection
quick_ratio(a, b) == calculate_ratio(SumOver(Range(a), a, b), Len(a) + Len(b))

\* SequenceMatcher.real_quick_ratio()
real_quick_ratio(a, b) == calculate_ratio(Min2(Len(a), Len(b)), Len(a) + Len(b))

\* (score, x) < (score', x') as Python compares tuples
\* variant: tuples ordered by score alone, so that the first of equal scores stays
TupleLess_ScoreOnly(t, u) == FloatLess(t[1], u[1])

TupleLess(t, u) ==
    \/ FloatLess(t[1], u[1])
    \/ FloatEq(t[1], u[1]) /\ StrLess(t[2], u[2])

\* heapq.nlargest(1, result) is [max(result)]: the first of the greatest tuples
RECURSIVE MaxFrom(_, _, _)
MaxFrom(res, best, i) ==
    IF i > Len(res) THEN best
    ELSE MaxFrom(res, IF TupleLess(best, res[i]) THEN res[i] ELSE best, i + 1)

\* variant: the least tuple in place of the greatest
nsmallest(n, res) ==
    IF res = <<>> THEN <<>>
    ELSE << CHOOSE t \in Range(res) : \A u \in Range(res) : ~TupleLess(u, t) >>

nlargest(n, res) == IF res = <<>> THEN <<>> ELSE << MaxFrom(res, res[1], 2) >>

\* variant: a possibility passes only above the cutoff
passes_Strict(x, w, c) == FloatLess(c, ratio(x, w))

\* a possibility x passes when its three ratios are all at least the cutoff
passes(x, w, c) ==
    /\ FloatLeq(c, real_quick_ratio(x, w))
    /\ FloatLeq(c, quick_ratio(x, w))
    /\ FloatLeq(c, ratio(x, w))

\* the possibilities that pass, as (score, x), in list order
RECURSIVE Scored(_, _, _, _)
Scored(w, possibilities, c, i) ==
    IF i > Len(possibilities) THEN <<>>
    ELSE (IF passes(possibilities[i], w, c)
          THEN << <<ratio(possibilities[i], w), possibilities[i]>> >> ELSE <<>>)
         \o Scored(w, possibilities, c, i + 1)

\* the second components of a list of tuples
Seconds(ts) == IF ts = <<>> THEN <<>> ELSE [t \in 1..Len(ts) |-> ts[t][2]]

\* difflib.get_close_matches(word, possibilities, n, cutoff)
get_close_matches(w, possibilities, n, c) ==
    IF ~(n > 0) \/ ~(FloatLeq(<<0, 1>>, c) /\ FloatLeq(c, <<1, 1>>))
    THEN [exception |-> "ValueError", ret |-> <<>>,
          word_list |-> possibilities, cands |-> {}]
    ELSE [exception |-> "none",
          ret |-> Seconds(nlargest(n, Scored(w, possibilities, c, 1))),
          word_list |-> possibilities, cands |-> {}]

---------------------------------------------------------------------------
(* Levenshtein.ratio, imported at corrector.py:21: (lensum - d) / lensum   *)
(* where d is the edit distance in which an insertion or a deletion costs  *)
(* 1 and a substitution costs 2; 1.0 for two empty strings.                *)

Min3(a, b, c) == Min2(a, Min2(b, c))

\* row i of the distance table from row i - 1 (prev), extended from the
\* columns 0..Len(cur)-1 already in cur; column j is at index j + 1
RECURSIVE NextRow(_, _, _, _)
NextRow(prev, ch, b, cur) ==
    IF Len(cur) > Len(b) THEN cur
    ELSE LET j == Len(cur)
         IN  NextRow(prev, ch, b,
                     Append(cur, Min3(prev[j + 1] + 1,
                                      cur[j] + 1,
                                      prev[j] + (IF ch = b[j] THEN 0 ELSE 2))))

RECURSIVE LastRow(_, _, _, _)
LastRow(a, b, prev, i) ==
    IF i > Len(a) THEN prev
    ELSE LastRow(a, b, NextRow(prev, a[i], b, <<i>>), i + 1)

edit_distance(a, b) == LastRow(a, b, [j \in 1..(Len(b) + 1) |-> j - 1], 1)[Len(b) + 1]

Levenshtein_ratio(a, b) ==
    LET lensum == Len(a) + Len(b)
    IN  IF lensum = 0 THEN <<1, 1>> ELSE <<lensum - edit_distance(a, b), lensum>>

---------------------------------------------------------------------------
(* corrector.py *)

\* Each strategy yields [exception, ret, word_list, cands]: the exception it
\* raises or "none", the value it returns, the list object word_list as the
\* call leaves it, and the candidate set spelling() computed.

\* [domain for domain in word_list if ratio(word, domain) > cutoff
\*  and len(matches) <= n], from index i on, with sofar the value of matches
RECURSIVE comprehension(_, _, _, _, _, _)
comprehension(w, word_list, n, c, sofar, i) ==
    IF i > Len(word_list) THEN <<>>
    ELSE (IF FloatLess(c, Levenshtein_ratio(w, word_list[i])) /\ Len(sofar) <= n
          THEN <<word_list[i]>> ELSE <<>>)
         \o comprehension(w, word_list, n, c, sofar, i + 1)

\* variant: every domain is collected, whatever its ratio
levenshtein_NoCutoff(w, word_list, n, c) ==
    [exception |-> "none", ret |-> word_list, word_list |-> word_list, cands |-> {}]

\* variant: the matches are appended to word_list itself, not to a new list
Extended(word_list, found) ==
    [exception |-> "none", ret |-> found, word_list |-> word_list \o found, cands |-> {}]

levenshtein_ExtendsWordList(w, word_list, n, c) ==
    Extended(word_list, comprehension(w, word_list, n, c, <<>>, 1))

\* levenshtein(word, word_list, n, cutoff): matches is still empty while the
\* comprehension runs; the comprehension's list is matches[0].
levenshtein(w, word_list, n, c) ==
    LET matches0 == <<>>
        matches  == Append(matches0, comprehension(w, word_list, n, c, matches0, 1))
    IN  [exception |-> "none", ret |-> matches[1],
         word_list |-> word_list, cands |-> {}]

\* Counter(word_list)
Counter(word_list) ==
    [d \in Range(word_list) |->
        Cardinality({i \in 1..Len(word_list) : word_list[i] = d})]

\* spelling.edits1(word)
edits1(w) ==
    LET splits     == 0..Len(w)        \* L = w[1..i], R = w[i+1..]
        L(i)       == SubSeq(w, 1, i)
        R(i)       == SubSeq(w, i + 1, Len(w))
        deletes    == {L(i) \o Tail(R(i)) : i \in {k \in splits : Len(R(k)) > 0}}
        transposes == {L(i) \o <<R(i)[2], R(i)[1]>> \o SubSeq(R(i), 3, Len(R(i))) :
                          i \in {k \in splits : Len(R(k)) > 1}}
        replaces   == {L(p[1]) \o <<p[2]>> \o Tail(R(p[1])) :
                          p \in {k \in splits : Len(R(k)) > 0} \X Range(letters)}
        inserts    == {L(p[1]) \o <<p[2]>> \o R(p[1]) : p \in splits \X Range(letters)}
    IN  deletes \cup transposes \cup replaces \cup inserts

\* spelling.edits2(word)
edits2(w) == UNION {edits1(e1) : e1 \in edits1(w)}

\* spelling.known(words): `w in words` tests words against itself
known(words) == {w \in words : w \in words}

\* spelling.candidates(word)
candidates(w) ==
    IF known({w}) # {} THEN known({w})
    ELSE IF known(edits1(w)) # {} THEN known(edits1(w))
    ELSE IF known(edits2(w)) # {} THEN known(edits2(w))
    ELSE {w}

\* max(cs, key=probability): max() calls key with one argument, and
\* probability(word, WORDS) takes two: TypeError at the first candidate
\* (ValueError from max() if there were none).
max_key_probability(cs, WORDS) ==
    [exception |-> IF cs = {} THEN "ValueError" ELSE "TypeError",
     ret |-> <<>>, cands |-> cs]

\* spelling.correction(word)
correction(w, WORDS) == max_key_probability(candidates(w), WORDS)

\* the outcome r of correction as the outcome of spelling
Spelled(r, word_list) ==
    [exception |-> r.exception, ret |-> r.ret,
     word_list |-> word_list, cands |-> r.cands]

\* spelling(word, word_list, n, cutoff)
spelling(w, word_list, n, c) == Spelled(correction(w, Counter(word_list)), word_list)

\* variant: the word is sought among the values of the table
InLookup_Values(w, lt) == \E k \in DOMAIN lt : lt[k] = w

\* corrector.py:31, `word in LOOKUP_TABLE`
InLookup(w, lt) == w \in DOMAIN lt

\* variant: '.com' is appended to the key in place of the table's value
lookup_AppendCom(w, lt) == w \o <<".", "c", "o", "m">>

\* corrector.py:32, LOOKUP_TABLE[word]
lookup(w, lt) == lt[w]

\* corrector.py:29, `override if override else MOST_COMMON_DOMAINS`: None and
\* the empty list are both false
UsesOverride(ov) == ov.given /\ ov.list # <<>>

\* corrector.py:41-43
fallback(g, w) == IF g # <<>> /\ Len(g) > 0 THEN g[1] ELSE w

\* corrector.py:34-39: the strategy that algo selects, run on the working list
dispatch(w, c, a, working_list) ==
    IF a = "levenshtein" THEN levenshtein(w, working_list, 1, c)
    ELSE IF a = "spellr" THEN spelling(w, working_list, 1, <<0, 1>>)
    ELSE get_close_matches(w, working_list, 1, c)

\* The outcome of suggest after the strategy ended as r: the exception or
\* "none", the value returned, guess, cands, and the list objects
\* MOST_COMMON_DOMAINS and override as the call leaves them (the working list
\* is the same object as one of the two).
Dispatched(r, w, ov, mcd) ==
    [exception |-> r.exception,
     value     |-> IF r.exception = "none" THEN fallback(r.ret, w) ELSE <<>>,
     guess     |-> r.ret,
     cands     |-> r.cands,
     mcd       |-> IF UsesOverride(ov) THEN mcd ELSE r.word_list,
     override  |-> IF UsesOverride(ov) THEN [ov EXCEPT !.list = r.word_list] ELSE ov]

\* suggest(word, cutoff, override, algo) run on the globals mcd and lt
suggest(w, c, ov, a, mcd, lt) ==
    IF InLookup(w, lt)
    THEN [exception |-> "none", value |-> lookup(w, lt), guess |-> <<>>,
          cands |-> {}, mcd |-> mcd, override |-> ov]
    ELSE Dispatched(dispatch(w, c, a, IF UsesOverride(ov) THEN ov.list ELSE mcd),
                    w, ov, mcd)

---------------------------------------------------------------------------
(* The caller's inputs *)

Typos ==
    { <<>>,                                                  \* ''
      <<"a", "b", "c">>,                                     \* abc
      <<"x", "y", "z", ".", "o", "r", "g">>,                 \* xyz.org
      <<"g", "m", "a", "l", ".", "c", "o", "m">>,            \* gmal.com
      <<"y", "a", "h", "u", "o", ".", "c", "o", "m">>,       \* yahuo.com
      <<"g", "m", "a", "i", "l", ".", "c", "o", "n">>,       \* gmail.con
      <<"a", ".", "c", "o", "m">>,                           \* a.com
      <<"m", ".", "c", "o">>,                                \* m.co
      <<"q", "q", ".", "c", "o">> }                          \* qq.co

Words == DOMAIN InitialLookup \cup Range(AllDomains) \cup Typos

\* 0.5, 0.77 (the default), 0.8, 1.0, and 1.5 outside the range
Cutoffs == {<<1, 2>>, <<77, 100>>, <<4, 5>>, <<1, 1>>, <<3, 2>>}

InRange(c) == FloatLess(<<0, 1>>, c) /\ FloatLeq(c, <<1, 1>>)

NoOverride == [given |-> FALSE, list |-> <<>>]

Overrides ==
    { NoOverride,
      [given |-> TRUE, list |-> <<>>],
      [given |-> TRUE, list |-> << <<"q", "q", ".", "c", "o", "m">>,
                                   <<"q", ".", "c", "o", "m">>,
                                   <<"q", "q", ".", "c", "o", "m">> >>],
      [given |-> TRUE, list |-> << <<>>, <<"m", "e", ".", "c", "o", "m">>,
                                   <<"m", "a", "c", ".", "c", "o", "m">>,
                                   <<"a", "i", "m", ".", "c", "o", "m">> >>] }

Algos == {"difflib", "levenshtein", "spellr"}

NoPrevious == [made |-> FALSE, result |-> <<>>, exception |-> "none"]

---------------------------------------------------------------------------
(* The state machine *)

Init ==
    /\ MOST_COMMON_DOMAINS = InitialDomains
    /\ LOOKUP_TABLE = InitialLookup
    /\ pc = "idle"
    /\ word = <<>>
    /\ cutoff = <<77, 100>>
    /\ override = NoOverride
    /\ algo = "difflib"
    /\ result = <<>>
    /\ exception = "none"
    /\ guess = <<>>
    /\ cands = {}
    /\ previous = NoPrevious

\* the caller calls suggest(w, c, ov, a)
Call ==
    /\ pc = "idle"
    /\ \E w \in Words, c \in Cutoffs, ov \in Overrides, a \in Algos :
          /\ word' = w
          /\ cutoff' = c
          /\ override' = ov
          /\ algo' = a
    /\ pc' = "called"
    /\ UNCHANGED <<MOST_COMMON_DOMAINS, LOOKUP_TABLE, result, exception, guess, cands,
                   previous>>

\* the call ends as r
Ends(r) ==
    /\ result' = r.value
    /\ exception' = r.exception
    /\ guess' = r.guess
    /\ cands' = r.cands
    /\ MOST_COMMON_DOMAINS' = r.mcd
    /\ override' = r.override
    /\ pc' = IF r.exception = "none" THEN "returned" ELSE "raised"

\* the body of suggest, to its return or to the exception that leaves it
Suggest ==
    /\ pc = "called"
    /\ Ends(suggest(word, cutoff, override, algo, MOST_COMMON_DOMAINS, LOOKUP_TABLE))
    /\ UNCHANGED <<LOOKUP_TABLE, word, cutoff, algo, previous>>

\* the caller keeps the outcome and makes the same call again, with the same
\* arguments and the same list object
Repeat ==
    /\ pc \in {"returned", "raised"}
    /\ ~previous.made
    /\ previous' = [made |-> TRUE, result |-> result, exception |-> exception]
    /\ pc' = "called"
    /\ UNCHANGED <<MOST_COMMON_DOMAINS, LOOKUP_TABLE, word, cutoff, override, algo,
                   result, exception, guess, cands>>

\* the caller takes the outcome and drops the call's arguments
Resume ==
    /\ pc \in {"returned", "raised"}
    /\ pc' = "idle"
    /\ word' = <<>>
    /\ cutoff' = <<77, 100>>
    /\ override' = NoOverride
    /\ algo' = "difflib"
    /\ result' = <<>>
    /\ exception' = "none"
    /\ guess' = <<>>
    /\ cands' = {}
    /\ previous' = NoPrevious
    /\ UNCHANGED <<MOST_COMMON_DOMAINS, LOOKUP_TABLE>>

Next == Call \/ Suggest \/ Repeat \/ Resume

Spec == Init /\ [][Next]_vars

---------------------------------------------------------------------------
(* Properties *)

Ended == pc \in {"returned", "raised"}

IsKey == word \in DOMAIN LOOKUP_TABLE

\* the list the call worked on
WorkingList == IF UsesOverride(override) THEN override.list ELSE MOST_COMMON_DOMAINS

IsStr(v) == \A i \in 1..Len(v) : v[i] \in Range(CodeOrder)

\* the score of reference domain d for the call's word under the call's strategy
Score(d) == IF algo = "levenshtein" THEN Levenshtein_ratio(word, d) ELSE ratio(d, word)

\* the best score over the working list is s
IsTopScore(s) ==
    /\ \E d \in Range(WorkingList) : FloatEq(Score(d), s)
    /\ \A d \in Range(WorkingList) : FloatLeq(Score(d), s)

\* the entries of the working list, in list order, that score the same as d
Tied(d) == SelectSeq(WorkingList, LAMBDA e : FloatEq(Score(e), Score(d)))

\* C1: suggest is total: for every word, every cutoff in (0,1], every override
\* list and each of the three algorithms the call returns a string and raises
\* no exception.
C1_Total ==
    (Ended /\ InRange(cutoff)) =>
        (pc = "returned" /\ exception = "none" /\ IsStr(result))

\* C2: for every key K of LOOKUP_TABLE the call returns LOOKUP_TABLE[K], whatever
\* the cutoff, the override list and the algorithm, and no strategy runs: no
\* guess, no candidate set, no exception of a strategy.
C2_ExactMatch ==
    (Ended /\ IsKey) =>
        /\ pc = "returned"
        /\ exception = "none"
        /\ result = LOOKUP_TABLE[word]
        /\ guess = <<>>
        /\ cands = {}

\* reached: a key looked up under the strategy that always raises, with a cutoff
\* outside the range and an override list in use
C2_Witness ==
    /\ pc = "returned"
    /\ IsKey
    /\ algo = "spellr"
    /\ cutoff = <<3, 2>>
    /\ UsesOverride(override)
    /\ result = LOOKUP_TABLE[word]

\* C3: for every domain D of MOST_COMMON_DOMAINS and every cutoff in (0,1], the
\* call with the default algorithm and the default list returns D.
C3_IdentityOnMembers ==
    (/\ Ended
     /\ algo = "difflib"
     /\ ~UsesOverride(override)
     /\ InRange(cutoff)
     /\ word \in Range(MOST_COMMON_DOMAINS)) =>
        (pc = "returned" /\ result = word)

\* reached: a member returned although another reference domain passes the cutoff
C3_Witness ==
    /\ pc = "returned"
    /\ algo = "difflib"
    /\ ~override.given
    /\ InRange(cutoff)
    /\ word \in Range(MOST_COMMON_DOMAINS)
    /\ result = word
    /\ \E d \in Range(MOST_COMMON_DOMAINS) : d # word /\ FloatLeq(cutoff, Score(d))

\* C4: if the word is no key of LOOKUP_TABLE and every domain of the working
\* list scores strictly below the cutoff (a cutoff in (0,1]), the call returns
\* the word unchanged, under the default and under the 'levenshtein' algorithm.
C4_NoMatchFallback ==
    (/\ Ended
     /\ algo \in {"difflib", "levenshtein"}
     /\ InRange(cutoff)
     /\ ~IsKey
     /\ \A d \in Range(WorkingList) : FloatLess(Score(d), cutoff)) =>
        (pc = "returned" /\ result = word)

\* reached: a 'levenshtein' call whose word resembles a reference domain, yet
\* none reaches the cutoff, and the word comes back
C4_Witness ==
    /\ pc = "returned"
    /\ algo = "levenshtein"
    /\ InRange(cutoff)
    /\ ~IsKey
    /\ \E d \in Range(WorkingList) : FloatLess(<<1, 2>>, Score(d))
    /\ \A d \in Range(WorkingList) : FloatLess(Score(d), cutoff)
    /\ result = word

\* C5: a call without an override list that returns, with any algorithm and any
\* cutoff in (0,1], returns a member of MOST_COMMON_DOMAINS, a value of
\* LOOKUP_TABLE, or the word itself.
C5_OutputInvariant ==
    (pc = "returned" /\ ~override.given /\ InRange(cutoff)) =>
        \/ result \in Range(MOST_COMMON_DOMAINS)
        \/ \E k \in DOMAIN LOOKUP_TABLE : result = LOOKUP_TABLE[k]
        \/ result = word

\* reached: each of the three kinds of output, here a table value that is
\* neither the word nor a listed domain
C5_Witness ==
    /\ pc = "returned"
    /\ ~override.given
    /\ InRange(cutoff)
    /\ IsKey
    /\ result # word
    /\ result \notin Range(MOST_COMMON_DOMAINS)

\* C6: whenever an override list is supplied (any list, the empty one included)
\* the default list is not consulted: for a word that is no key the result is a
\* member of the override list or the word itself.
C6_OverrideReplaces ==
    (pc = "returned" /\ override.given /\ ~IsKey) =>
        (result \in Range(override.list) \/ result = word)

\* C7: no call changes MOST_COMMON_DOMAINS, LOOKUP_TABLE or the caller's override
\* list, and a call repeated with the same arguments ends as it did before.
C7_Isolation ==
    [][/\ MOST_COMMON_DOMAINS' = MOST_COMMON_DOMAINS
       /\ LOOKUP_TABLE' = LOOKUP_TABLE
       /\ (pc = "called" => override' = override)
       /\ (pc = "called" /\ previous.made =>
              result' = previous.result /\ exception' = previous.exception)]_vars

\* reached: a repeated 'levenshtein' call on an override list that found a match
C7_Witness ==
    /\ pc = "returned"
    /\ previous.made
    /\ algo = "levenshtein"
    /\ UsesOverride(override)
    /\ guess # <<>>
    /\ result # word

\* C8 as stated: with the default algorithm the call returns a reference domain
\* of the highest score among the qualifying ones, and of several with that
\* score the one that occurs first in the working list.
C8_FirstInListOrder ==
    (pc = "returned" /\ algo = "difflib" /\ ~IsKey /\ guess # <<>>) =>
        /\ result \in Range(WorkingList)
        /\ IsTopScore(Score(result))
        /\ result = Tied(result)[1]

\* C8 amended: with the default algorithm the call returns a reference domain of
\* the highest score among the qualifying ones, and of several with that score
\* the greatest in string order, wherever it stands in the working list.
C8_GreatestOnTies ==
    (pc = "returned" /\ algo = "difflib" /\ ~IsKey /\ guess # <<>>) =>
        /\ result \in Range(WorkingList)
        /\ FloatLeq(cutoff, Score(result))
        /\ IsTopScore(Score(result))
        /\ \A d \in Range(Tied(result)) : ~StrLess(result, d)

\* reached: several distinct domains share the top score and the one returned is
\* not the first of them in the list
C8_Witness ==
    /\ pc = "returned"
    /\ algo = "difflib"
    /\ ~IsKey
    /\ guess # <<>>
    /\ Cardinality(Range(Tied(result))) > 1
    /\ result # Tied(result)[1]

\* C9 as stated: with the default algorithm a reference domain is returned only
\* if its score strictly exceeds the cutoff; when the best score equals the
\* cutoff and the word is no key, the word is returned unchanged.
C9_StrictThreshold ==
    (Ended /\ algo = "difflib" /\ InRange(cutoff) /\ ~IsKey) =>
        /\ pc = "returned"
        /\ result # word => FloatLess(cutoff, Score(result))
        /\ IsTopScore(cutoff) => result = word

\* C9 amended: with the default algorithm a reference domain is returned only if
\* its score is at least the cutoff; when the best score equals the cutoff and
\* the word is no key, a domain of that score is returned; when every score is
\* below the cutoff, the word is returned.
C9_InclusiveThreshold ==
    (Ended /\ algo = "difflib" /\ InRange(cutoff) /\ ~IsKey) =>
        /\ pc = "returned"
        /\ guess # <<>> =>
              (guess[1] \in Range(WorkingList) /\ FloatLeq(cutoff, Score(guess[1])))
        /\ IsTopScore(cutoff) =>
              (guess # <<>> /\ result = guess[1] /\ FloatEq(Score(result), cutoff))
        /\ (\A d \in Range(WorkingList) : FloatLess(Score(d), cutoff)) =>
              (guess = <<>> /\ result = word)

\* reached: the best score equals the cutoff and that domain, not the word, is
\* returned
C9_Witness ==
    /\ pc = "returned"
    /\ algo = "difflib"
    /\ ~IsKey
    /\ IsTopScore(cutoff)
    /\ guess # <<>>
    /\ result # word
    /\ FloatEq(Score(result), cutoff)

\* known(words) as C10 states it: the elements of words that are keys of WORDS
known_in_table(words, WORDS) == {w \in words : w \in DOMAIN WORDS}

\* the candidate set as C10 states it
candidates_in_table(w, WORDS) ==
    IF known_in_table({w}, WORDS) # {} THEN known_in_table({w}, WORDS)
    ELSE IF known_in_table(edits1(w), WORDS) # {} THEN known_in_table(edits1(w), WORDS)
    ELSE IF known_in_table(edits2(w), WORDS) # {} THEN known_in_table(edits2(w), WORDS)
    ELSE {w}

\* C10: in spelling() the candidate set is {word} if word is in the frequency
\* table; otherwise the one-edit strings of word that are in the table, if any;
\* otherwise the two-edit strings that are in the table, if any; otherwise
\* {word}.
C10_KnownFiltersByTable ==
    (Ended /\ algo = "spellr" /\ ~IsKey) =>
        cands = candidates_in_table(word, Counter(WorkingList))

=============================================================================
